---- MODULE Spec2Model ----
(***************************************************************************)
(* Movie_Shows_Discovery backend: the expiring cache, the rate-limited     *)
(* retrying HTTP client and the recommendation engine, as state machines.  *)
(*                                                                         *)
(* One module, several specifications over the same variables:             *)
(*   SpecCache    utils.Cache under Set/Get/Delete/Clear/Cleanup + clock   *)
(*   SpecLimiter  utils.NewRateLimiter: refill goroutine and permit takers *)
(*   SpecRetry    HTTPClient.RequestWithRetry, one call, step by step      *)
(*   FairSpecRetry  the same with the scheduling the runtime guarantees    *)
(*   SpecReco     WatchlistService + TMDBService.GetTrendingMedia          *)
(*   SpecEndpoint WatchlistController.GetRecommendations over the service  *)
(*   SpecKey, SpecScore, SpecSimilarity  GenerateCacheKey, the scoring and *)
(*                CalculateSimilarity applied to drawn arguments           *)
(*   SpecSimilar  WatchlistService.GetSimilarMovies for one movie          *)
(*   SpecTrending TMDBService.GetTrendingMedia for one page and media type *)
(*   SpecRace     two request handlers inside the methods of one Cache     *)
(*   SpecWatchRace  two request handlers inside AddToWatchlist             *)
(*   SpecMiddleware  middleware.RateLimitMiddleware over three connections *)
(* A specification leaves the variables of the other components unchanged. *)
(***************************************************************************)
EXTENDS Integers, Sequences, FiniteSets, TLC

VARIABLES
    \* utils.Cache (backend/utils/helpers.go:12-71) and the clock it reads
    data,        \* Cache.data: map key -> CacheItem, a function on the present keys
    now,         \* time.Now(), in whole time units
    lastOp,      \* the last cache operation with its arguments and its results
    \* utils.RateLimiter (helpers.go:143-187)
    requests,    \* number of permits buffered in RateLimiter.requests
    ticks,       \* ticker firings received by the refill goroutine
    granted,     \* permits handed to callers
    phase,       \* position of the clock inside the current refill interval
    grantLog,    \* permits granted at each of the last SubSteps clock instants
    sinceTick,   \* permits granted since the last ticker firing
    \* one HTTPClient.RequestWithRetry call (helpers.go:199-265)
    pc,          \* where the call is
    attempt,     \* loop variable attempt
    backoff,     \* local backoff, in seconds
    cancelled,   \* ctx.Done() is closed
    reqValid,    \* http.NewRequestWithContext accepts method and url
    sent,        \* requests put on the wire by client.Do
    taken,       \* permits this call received
    permitHeld,  \* a permit was received and no request was sent since
    outcomes,    \* what client.Do returned, attempt by attempt
    slept,       \* the time.Sleep durations performed, in seconds
    resp,        \* returned *http.Response (its status) or Nil
    err,         \* returned error kind
    \* services.WatchlistService (watchlist_service.go:14-426)
    watchlists,  \* WatchlistService.watchlists: userID -> items, on the present users
    lastReco,    \* the last GetRecommendations call with its inputs and results
    \* the helper functions, applied to arguments of their own
    input,       \* the function applied and its arguments
    output,      \* its result, once computed
    \* request handlers running at the same time (net/http: one goroutine each)
    handlers,    \* handler -> the call it is in, its position and its locals
    \* middleware.RateLimitMiddleware (helpers.go:404-437)
    clients,     \* the closure's map clients: r.RemoteAddr -> times of passed requests
    served       \* the requests passed on during the last minute, and the last answer

cacheVars   == <<data, now, lastOp>>
limiterVars == <<requests, ticks, granted, phase, grantLog, sinceTick>>
retryVars   == <<pc, attempt, backoff, cancelled, reqValid, sent, taken, permitHeld,
                 outcomes, slept, resp, err>>
recoVars    == <<watchlists, lastReco>>
pureVars    == <<input, output>>
handlerVars == <<handlers, clients, served>>
vars        == <<cacheVars, limiterVars, retryVars, recoVars, pureVars, handlerVars>>

Nil == "nil"

\* input before any call, output before and after the result is there
NoInput == [fn |-> Nil]
NoOutput == [done |-> FALSE, value |-> <<>>]
Computed(v) == [done |-> TRUE, value |-> v]

(***************************************************************************)
(* Bounds of the model                                                     *)
(***************************************************************************)
MaxTime == 3          \* the clock stops advancing here
MaxTTL  == 2          \* ttl arguments are 0..MaxTTL
MaxTicks == 6         \* ticker firings counted by SpecLimiter

Keys   == {"k1", "k2"}
Values == {"v1", "v2"}
TTLs   == 0..MaxTTL

(***************************************************************************)
(* utils.Cache                                                             *)
(***************************************************************************)
NoItem == [Data |-> Nil, ExpiresAt |-> -1]

\* an expiry check that fires at the expiry instant itself
NotBefore(t, u) == t >= u

\* time.Time.After: strictly later
After(t, u) == t > u

\* a Set that keeps an existing entry whose expiry is later than the new one
CacheSetKeepLater(d, key, value, ttl, t) ==
    IF key \in DOMAIN d /\ d[key].ExpiresAt > t + ttl THEN d
    ELSE [x \in (DOMAIN d) \cup {key} |->
             IF x = key THEN [Data |-> value, ExpiresAt |-> t + ttl] ELSE d[x]]

\* Cache.Set: c.data[key] = CacheItem{value, time.Now().Add(ttl)}
CacheSet(d, key, value, ttl, t) ==
    [x \in (DOMAIN d) \cup {key} |->
        IF x = key THEN [Data |-> value, ExpiresAt |-> t + ttl] ELSE d[x]]

\* delete(c.data, key)
MapDelete(d, key) == [x \in (DOMAIN d) \ {key} |-> d[x]]

\* a Get that forgets the expiry check
CacheGetNoExpiry(d, key, t) ==
    IF key \notin DOMAIN d
    THEN [data |-> d, value |-> Nil, found |-> FALSE]
    ELSE [data |-> d, value |-> d[key].Data, found |-> TRUE]

\* Cache.Get: the map afterwards and the two results
CacheGet(d, key, t) ==
    IF key \notin DOMAIN d
    THEN [data |-> d, value |-> Nil, found |-> FALSE]
    ELSE IF After(t, d[key].ExpiresAt)
         THEN [data |-> MapDelete(d, key), value |-> Nil, found |-> FALSE]
         ELSE [data |-> d, value |-> d[key].Data, found |-> TRUE]

\* Cache.Delete
CacheDelete(d, key) == MapDelete(d, key)

\* Cache.Clear: c.data = make(map[string]CacheItem)
CacheClear(d) == [x \in {} |-> NoItem]

\* a sweep that also removes the entries that expire at this very instant
CacheCleanupEager(d, t) ==
    [x \in {k \in DOMAIN d : t < d[k].ExpiresAt} |-> d[x]]

\* Cache.Cleanup: delete every entry with now.After(item.ExpiresAt)
CacheCleanup(d, t) ==
    [x \in {k \in DOMAIN d : ~After(t, d[k].ExpiresAt)} |-> d[x]]

EmptyCache == [x \in {} |-> NoItem]

OpRecord(op, key, value, ttl, found, pre) ==
    [op |-> op, key |-> key, value |-> value, ttl |-> ttl, found |-> found,
     pre |-> pre, at |-> now]

ItemOf(d, key) == IF key \in DOMAIN d THEN d[key] ELSE NoItem

Set(key, value, ttl) ==
    /\ data' = CacheSet(data, key, value, ttl, now)
    /\ lastOp' = OpRecord("Set", key, value, ttl, FALSE, ItemOf(data, key))
    /\ UNCHANGED now

Get(key) ==
    LET r == CacheGet(data, key, now) IN
    /\ data' = r.data
    /\ lastOp' = OpRecord("Get", key, r.value, 0, r.found, ItemOf(data, key))
    /\ UNCHANGED now

Delete(key) ==
    /\ data' = CacheDelete(data, key)
    /\ lastOp' = OpRecord("Delete", key, Nil, 0, FALSE, ItemOf(data, key))
    /\ UNCHANGED now

Clear ==
    /\ data' = CacheClear(data)
    /\ lastOp' = OpRecord("Clear", Nil, Nil, 0, FALSE, NoItem)
    /\ UNCHANGED now

Cleanup ==
    /\ data' = CacheCleanup(data, now)
    /\ lastOp' = OpRecord("Cleanup", Nil, Nil, 0, data' # data, NoItem)
    /\ UNCHANGED now

\* the wall clock moves on
AdvanceClock ==
    /\ now < MaxTime
    /\ now' = now + 1
    /\ lastOp' = OpRecord("Advance", Nil, Nil, 0, FALSE, NoItem)
    /\ UNCHANGED data

(***************************************************************************)
(* utils.Cache under request handlers that run at the same time: the type  *)
(* has no lock, so a method is a sequence of separate accesses to c.data   *)
(***************************************************************************)
Handlers == {"h1", "h2"}

\* a handler outside any Cache method, with the results of its last call
CacheCall(op, where, key) ==
    [op |-> op, pc |-> where, key |-> key, item |-> NoItem, t |-> 0, todo |-> {},
     value |-> Nil, found |-> FALSE, deleted |-> FALSE, removed |-> NoItem, at |-> 0]
IdleHandler == CacheCall(Nil, "idle", Nil)

\* Set: one map write
RaceSet(h, key, value, ttl) ==
    /\ handlers[h].pc = "idle"
    /\ data' = CacheSet(data, key, value, ttl, now)
    /\ handlers' = [handlers EXCEPT ![h] = CacheCall("Set", "idle", key)]
    /\ UNCHANGED <<now, lastOp>>

\* Get, line 40: item, exists := c.data[key]
GetRead(h, key) ==
    /\ handlers[h].pc = "idle"
    /\ handlers' = [handlers EXCEPT ![h] =
          IF key \in DOMAIN data
          THEN [CacheCall("Get", "GetCheck", key) EXCEPT !.item = data[key]]
          ELSE CacheCall("Get", "idle", key)]
    /\ UNCHANGED cacheVars

\* Get, line 45: time.Now().After(item.ExpiresAt), on the copy read before
GetCheck(h) ==
    /\ handlers[h].pc = "GetCheck"
    /\ LET me == handlers[h] IN
          handlers' = [handlers EXCEPT ![h] =
             IF After(now, me.item.ExpiresAt)
             THEN [me EXCEPT !.pc = "GetDelete"]
             ELSE [me EXCEPT !.pc = "idle", !.value = me.item.Data, !.found = TRUE]]
    /\ UNCHANGED cacheVars

\* the delete(c.data, key) of Get and of Cleanup: removes whatever entry the
\* key has by now
DeleteChecked(h, from, to) ==
    /\ handlers[h].pc = from
    /\ data' = MapDelete(data, handlers[h].key)
    /\ handlers' = [handlers EXCEPT ![h] =
          [@ EXCEPT !.pc = to, !.deleted = TRUE,
                    !.removed = ItemOf(data, handlers[h].key), !.at = now]]
    /\ UNCHANGED <<now, lastOp>>

\* Get, line 46
GetDelete(h) == DeleteChecked(h, "GetDelete", "idle")

\* Delete: one map write
RaceDelete(h, key) ==
    /\ handlers[h].pc = "idle"
    /\ data' = CacheDelete(data, key)
    /\ handlers' = [handlers EXCEPT ![h] = CacheCall("Delete", "idle", key)]
    /\ UNCHANGED <<now, lastOp>>

\* Clear: one assignment to c.data
RaceClear(h) ==
    /\ handlers[h].pc = "idle"
    /\ data' = CacheClear(data)
    /\ handlers' = [handlers EXCEPT ![h] = CacheCall("Clear", "idle", Nil)]
    /\ UNCHANGED <<now, lastOp>>

\* Cleanup, lines 65-66: now := time.Now(), and the range starts on the keys
\* the map holds
CleanupStart(h) ==
    /\ handlers[h].pc = "idle"
    /\ handlers' = [handlers EXCEPT ![h] =
          [CacheCall("Cleanup", "CleanupRange", Nil) EXCEPT !.t = now,
                                                            !.todo = DOMAIN data]]
    /\ UNCHANGED cacheVars

\* Cleanup, lines 66-67: the range yields a key that is still present with its
\* item, and the expiry check is made on that copy; a key removed meanwhile is
\* not yielded; the loop ends when no key is left
CleanupRange(h) ==
    /\ handlers[h].pc = "CleanupRange"
    /\ LET left == handlers[h].todo \cap DOMAIN data IN
          IF left = {}
          THEN handlers' = [handlers EXCEPT ![h] = [@ EXCEPT !.pc = "idle", !.todo = {}]]
          ELSE \E k \in left :
                 handlers' = [handlers EXCEPT ![h] =
                    [@ EXCEPT !.key = k, !.item = data[k], !.todo = left \ {k},
                              !.pc = IF After(handlers[h].t, data[k].ExpiresAt)
                                     THEN "CleanupDelete" ELSE "CleanupRange"]]
    /\ UNCHANGED cacheVars

\* Cleanup, line 68
CleanupDelete(h) == DeleteChecked(h, "CleanupDelete", "CleanupRange")

\* time passes while handlers are inside their calls
RaceClock ==
    /\ now < MaxTime
    /\ now' = now + 1
    /\ UNCHANGED <<data, lastOp, handlers>>

(***************************************************************************)
(* utils.RateLimiter                                                       *)
(***************************************************************************)
RequestsPerSecond == 2     \* the requestsPerSecond argument of NewRateLimiter
SubSteps == 2              \* clock instants per refill interval (time.Second / R)

\* make(chan struct{}, requestsPerSecond + 1): a buffer one larger than the rate
CapacityPlusOne(r) == r + 1

\* make(chan struct{}, requestsPerSecond): the buffer holds requestsPerSecond permits
Capacity(r) == r

\* a refill that ignores the buffer bound
RefillUnbounded(p) == p + 1

\* select { case requests <- struct{}{}: default: }: a full buffer drops the permit
Refill(p) == IF p < Capacity(RequestsPerSecond) THEN p + 1 ELSE p

RECURSIVE SeqSum(_)
SeqSum(s) == IF s = <<>> THEN 0 ELSE Head(s) + SeqSum(Tail(s))

\* permits granted at the last SubSteps clock instants: they all lie inside one
\* window of the length of a refill interval
WindowGrants == SeqSum(grantLog)

BumpLast(s) == [s EXCEPT ![Len(s)] = @ + 1]

InitLimiter ==
    /\ requests = 0
    /\ ticks = 0
    /\ granted = 0
    /\ phase = 0
    /\ grantLog = [i \in 1..SubSteps |-> 0]
    /\ sinceTick = 0

\* the clock reaches the next instant; every SubSteps-th instant the ticker fires
\* and the refill goroutine offers one permit to the channel
AdvanceLimiter ==
    /\ phase' = (phase + 1) % SubSteps
    /\ grantLog' = Append(Tail(grantLog), 0)
    /\ IF phase' = 0
       THEN /\ ticks < MaxTicks
            /\ ticks' = ticks + 1
            /\ requests' = Refill(requests)
            /\ sinceTick' = 0
       ELSE UNCHANGED <<ticks, requests, sinceTick>>
    /\ UNCHANGED granted

\* a caller receives from RateLimiter.requests
Acquire ==
    /\ requests > 0
    /\ requests' = requests - 1
    /\ granted' = granted + 1
    /\ sinceTick' = sinceTick + 1
    /\ grantLog' = BumpLast(grantLog)
    /\ UNCHANGED <<ticks, phase>>

(***************************************************************************)
(* HTTPClient.RequestWithRetry                                             *)
(***************************************************************************)
MaxRetries == 3            \* maxRetries := 3
InitialBackoff == 1        \* backoff := time.Second

\* what client.Do hands back: a transport error (no response) or a response
NoResp == [ok |-> FALSE, status |-> 0]
ErrOutcome == NoResp
Statuses == {200, 204, 404, 429, 500, 502, 503, 504}
Outcomes == {ErrOutcome} \cup {[ok |-> TRUE, status |-> s] : s \in Statuses}

\* resp.StatusCode >= 200 && resp.StatusCode < 300
IsSuccess(o) == o.ok /\ o.status >= 200 /\ o.status < 300

\* one attempt too many: attempt == maxRetries + 1
ExhaustedLate(a) == a = MaxRetries + 1

\* attempt == maxRetries
Exhausted(a) == a = MaxRetries

\* a success that falls into the server-error case
DispositionRetrySuccess(o, a) ==
    IF ~o.ok THEN (IF Exhausted(a) THEN "fail_transport" ELSE "retry")
    ELSE IF o.status = 429
         THEN (IF Exhausted(a) THEN "fail_rate_limited" ELSE "retry_double")
    ELSE IF o.status \in {200, 204, 500, 502, 503, 504}
         THEN (IF Exhausted(a) THEN "fail_server" ELSE "retry")
    ELSE "return"

\* a switch whose default case retries like a server error
DispositionRetryDefault(o, a) ==
    IF ~o.ok THEN (IF Exhausted(a) THEN "fail_transport" ELSE "retry")
    ELSE IF IsSuccess(o) THEN "return"
    ELSE IF o.status = 429
         THEN (IF Exhausted(a) THEN "fail_rate_limited" ELSE "retry_double")
    ELSE (IF Exhausted(a) THEN "fail_server" ELSE "retry")

\* what the loop body does with the outcome of client.Do at attempt a
Disposition(o, a) ==
    IF ~o.ok THEN (IF Exhausted(a) THEN "fail_transport" ELSE "retry")
    ELSE IF IsSuccess(o) THEN "return"
    ELSE IF o.status = 429
         THEN (IF Exhausted(a) THEN "fail_rate_limited" ELSE "retry_double")
    ELSE IF o.status \in {500, 502, 503, 504}
         THEN (IF Exhausted(a) THEN "fail_server" ELSE "retry")
    ELSE "return"

\* a retry that jumps straight to the request, past the limiter
RetryWithoutPermit == "do"

\* continue: the next iteration starts at the select on the limiter
NextAttemptPc == "select"

InitRetry ==
    /\ pc = "select"
    /\ attempt = 0
    /\ backoff = InitialBackoff
    /\ cancelled = FALSE
    /\ reqValid \in BOOLEAN
    /\ sent = 0
    /\ taken = 0
    /\ permitHeld = FALSE
    /\ outcomes = <<>>
    /\ slept = <<>>
    /\ resp = NoResp
    /\ err = Nil

\* return r, e
Return(r, e) ==
    /\ pc' = "done"
    /\ resp' = r
    /\ err' = e

\* the rest of the loop body once client.Do has returned o
HandleOutcome(o) ==
    LET d == Disposition(o, attempt) IN
    /\ outcomes' = Append(outcomes, o)
    /\ CASE d = "return"            -> Return(o, Nil) /\ UNCHANGED slept
         [] d = "fail_transport"    -> Return(NoResp, "transport_exhausted") /\ UNCHANGED slept
         [] d = "fail_rate_limited" -> Return(o, "rate_limited") /\ UNCHANGED slept
         [] d = "fail_server"       -> Return(o, "server_error") /\ UNCHANGED slept
         [] d = "retry"             -> /\ pc' = "sleep"
                                       /\ slept' = Append(slept, backoff)
                                       /\ UNCHANGED <<resp, err>>
         [] d = "retry_double"      -> /\ pc' = "sleep"
                                       /\ slept' = Append(slept, backoff * 2)
                                       /\ UNCHANGED <<resp, err>>
    /\ UNCHANGED <<attempt, backoff, cancelled, reqValid, taken, requests>>

\* select: case <-h.rateLimit.requests, chosen when a permit is buffered
SelectPermit ==
    /\ pc = "select"
    /\ requests > 0
    /\ requests' = requests - 1
    /\ taken' = taken + 1
    /\ permitHeld' = TRUE
    /\ pc' = "do"
    /\ UNCHANGED <<attempt, backoff, cancelled, reqValid, sent, outcomes, slept, resp, err>>

\* select: case <-ctx.Done(): return nil, ctx.Err()
SelectDone ==
    /\ pc = "select"
    /\ cancelled
    /\ Return(NoResp, "ctx")
    /\ UNCHANGED <<attempt, backoff, cancelled, reqValid, sent, taken, permitHeld,
                   outcomes, slept, requests>>

\* select: no case is ready, the goroutine parks on both channels
SelectPark ==
    /\ pc = "select"
    /\ requests = 0
    /\ ~cancelled
    /\ pc' = "parked"
    /\ UNCHANGED <<attempt, backoff, cancelled, reqValid, sent, taken, permitHeld,
                   outcomes, slept, resp, err, requests>>

\* http.NewRequestWithContext, the headers, and the start of client.Do; a request
\* whose context is already done is not sent and client.Do returns its error
DoStart ==
    /\ pc = "do"
    /\ IF ~reqValid
       THEN /\ Return(NoResp, "create")
            /\ UNCHANGED <<attempt, backoff, cancelled, reqValid, sent, taken,
                           permitHeld, outcomes, slept, requests>>
       ELSE IF cancelled
       THEN /\ HandleOutcome(ErrOutcome)
            /\ UNCHANGED <<sent, permitHeld>>
       ELSE /\ sent' = sent + 1
            /\ permitHeld' = FALSE
            /\ pc' = "inflight"
            /\ UNCHANGED <<attempt, backoff, cancelled, reqValid, taken, outcomes,
                           slept, resp, err, requests>>

\* client.Do returns; a request whose context was cancelled under way fails
DoReturn(o) ==
    /\ pc = "inflight"
    /\ cancelled => o = ErrOutcome
    /\ HandleOutcome(o)
    /\ UNCHANGED <<sent, permitHeld>>

\* a backoff that never grows
NextBackoffConstant(b) == b

\* backoff *= 2
NextBackoff(b) == b * 2

\* time.Sleep returns: backoff *= 2; continue
Wake ==
    /\ pc = "sleep"
    /\ backoff' = NextBackoff(backoff)
    /\ attempt' = attempt + 1
    /\ pc' = NextAttemptPc
    /\ UNCHANGED <<cancelled, reqValid, sent, taken, permitHeld, outcomes, slept,
                   resp, err, requests>>

\* the caller cancels ctx (or its deadline fires); a parked select wakes on it
Cancel ==
    /\ ~cancelled
    /\ pc # "done"
    /\ cancelled' = TRUE
    /\ IF pc = "parked"
       THEN Return(NoResp, "ctx")
       ELSE UNCHANGED <<pc, resp, err>>
    /\ UNCHANGED <<attempt, backoff, reqValid, sent, taken, permitHeld, outcomes,
                   slept, requests>>

\* the refill goroutine offers a permit; a parked select receives it directly
TickRetry ==
    /\ IF pc = "parked"
       THEN /\ pc' = "do"
            /\ taken' = taken + 1
            /\ permitHeld' = TRUE
            /\ UNCHANGED requests
       ELSE /\ requests' = Refill(requests)
            /\ UNCHANGED <<pc, taken, permitHeld>>
    /\ UNCHANGED <<attempt, backoff, cancelled, reqValid, sent, outcomes, slept,
                   resp, err>>

CallStep ==
    \/ SelectPermit
    \/ SelectDone
    \/ SelectPark
    \/ DoStart
    \/ \E o \in Outcomes : DoReturn(o)
    \/ Wake

(***************************************************************************)
(* Exact arithmetic for the float64 scores: a rational is <<n, d>> with d > 0  *)
(* in lowest terms                                                         *)
(***************************************************************************)
RECURSIVE GCD(_, _)
GCD(a, b) == IF b = 0 THEN a ELSE GCD(b, a % b)

Abs(x) == IF x < 0 THEN -x ELSE x

Rat(n, d) == LET g == GCD(Abs(n), d) IN <<n \div g, d \div g>>
RZero == <<0, 1>>
ROne == <<1, 1>>
RAdd(a, b) == Rat(a[1] * b[2] + b[1] * a[2], a[2] * b[2])
RSub(a, b) == Rat(a[1] * b[2] - b[1] * a[2], a[2] * b[2])
RMul(a, b) == Rat(a[1] * b[1], a[2] * b[2])
RLess(a, b) == a[1] * b[2] < b[1] * a[2]
RAbs(a) == <<Abs(a[1]), a[2]>>
RMin(a, b) == IF RLess(b, a) THEN b ELSE a

RECURSIVE RSum(_)
RSum(s) == IF s = <<>> THEN RZero ELSE RAdd(Head(s), RSum(Tail(s)))

(***************************************************************************)
(* services.TMDBService: the provider and GetTrendingMedia                 *)
(***************************************************************************)
MaxItems == 2              \* items per watchlist
MaxRecoTime == 31          \* the clock of SpecReco stops here
PageSize == 20             \* "20 per page" of GetTrendingMedia
RecommendationTTL == 30    \* 30*time.Minute, the clock of SpecReco counts minutes

Users == {"u1"}
MovieIDs == {1, 2}
Ratings == {RZero, <<8, 1>>}
Limits == {2}

ZeroMovie ==
    [ID |-> 0, GenreIDs |-> <<>>, VoteAverage |-> RZero, Popularity |-> RZero,
     ReleaseDate |-> "", MediaType |-> ""]

\* what the provider answers for /movie/{id}
Catalog(m) ==
    [ID |-> m, GenreIDs |-> <<28>>, VoteAverage |-> <<8, 1>>, Popularity |-> <<20, 1>>,
     ReleaseDate |-> IF m = 1 THEN "2020-05-01" ELSE "2021-01-01", MediaType |-> "movie"]

\* what the provider answers for /trending/movie/week and /trending/tv/week, page 1
TrendingMovies ==
    << [ID |-> 11, GenreIDs |-> <<28>>, VoteAverage |-> <<17, 2>>,
        Popularity |-> <<50, 1>>, ReleaseDate |-> "2020-05-01", MediaType |-> "movie"],
       [ID |-> 12, GenreIDs |-> <<35>>, VoteAverage |-> <<17, 2>>,
        Popularity |-> <<90, 1>>, ReleaseDate |-> "Unknown", MediaType |-> "movie"] >>
TrendingTV ==
    << [ID |-> 13, GenreIDs |-> <<>>, VoteAverage |-> RZero,
        Popularity |-> <<5, 1>>, ReleaseDate |-> "", MediaType |-> "tv"] >>

\* the provider's list has two pages per media type: the answer to the request
\* with params "page" = p is the p-th page, nothing beyond the last one
Renumbered(results, offset) ==
    [i \in 1..Len(results) |-> [results[i] EXCEPT !.ID = @ + offset]]
ProviderPage(kind, p) ==
    LET first == IF kind = "movie" THEN TrendingMovies ELSE TrendingTV
    IN  CASE p = 1 -> first
          [] p = 2 -> Renumbered(first, 20)
          [] OTHER -> <<>>

\* the outbound requests one GetTrendingMedia call hands to client.Get
TrendingRequests(page, mediaType) ==
    (IF mediaType \in {"movie", "all"}
     THEN <<[path |-> "/trending/movie", page |-> page]>> ELSE <<>>)
    \o (IF mediaType \in {"tv", "all"}
        THEN <<[path |-> "/trending/tv", page |-> page]>> ELSE <<>>)

\* utils.ParseYear on the release dates of the model: strconv.Atoi of the part
\* before the first "-"; 0 for "" and for text that is no number
ParseYear(dateStr) ==
    CASE dateStr = "2020-05-01" -> 2020
      [] dateStr = "2021-01-01" -> 2021
      [] OTHER -> 0

\* the manual pagination at the end of GetTrendingMedia
TrendingPage(allResults, page) ==
    LET totalResults == Len(allResults)
        start0 == (page - 1) * PageSize
        end0 == start0 + PageSize
        start == IF start0 > totalResults THEN totalResults ELSE start0
        end == IF end0 > totalResults THEN totalResults ELSE end0
    IN  IF start < end THEN SubSeq(allResults, start + 1, end) ELSE <<>>

\* TMDBService.GetTrendingMedia: a fetch that fails (client.Get error, unreadable
\* body) contributes nothing and is not reported; the error result is always nil
GetTrendingMedia(page, mediaType, movieOK, tvOK) ==
    LET movies == IF mediaType \in {"movie", "all"} /\ movieOK
                  THEN ProviderPage("movie", page) ELSE <<>>
        tv == IF mediaType \in {"tv", "all"} /\ tvOK
              THEN ProviderPage("tv", page) ELSE <<>>
        allResults == movies \o tv
    IN  [Results |-> TrendingPage(allResults, page),
         TotalResults |-> Len(allResults),
         TotalPages |-> (Len(allResults) + PageSize - 1) \div PageSize,
         err |-> Nil]

(***************************************************************************)
(* utils.CalculateSimilarity, on the GenreIDs of the two movies            *)
(***************************************************************************)
\* twice the common tags over the sum of the two set sizes
CalculateSimilarityDice(ids1, ids2) ==
    IF Len(ids1) = 0 \/ Len(ids2) = 0 THEN RZero
    ELSE LET genres1 == {ids1[i] : i \in 1..Len(ids1)}
             genres2 == {ids2[i] : i \in 1..Len(ids2)}
             intersection == Cardinality({id \in genres1 : id \in genres2})
         IN  Rat(2 * intersection, Cardinality(genres1) + Cardinality(genres2))

CalculateSimilarity(ids1, ids2) ==
    IF Len(ids1) = 0 \/ Len(ids2) = 0 THEN RZero
    ELSE LET genres1 == {ids1[i] : i \in 1..Len(ids1)}
             genres2 == {ids2[i] : i \in 1..Len(ids2)}
             intersection == Cardinality({id \in genres1 : id \in genres2})
             union == Cardinality(genres1) + Cardinality(genres2) - intersection
         IN  IF union = 0 THEN RZero ELSE Rat(intersection, union)

(***************************************************************************)
(* services.WatchlistService                                               *)
(***************************************************************************)
\* a parameter of GenerateCacheKey (an interface{} value): <<"string", s>> or
\* <<"int", n>>
StringParam(s) == <<"string", s>>
IntParam(n) == <<"int", n>>

\* fmt.Sprintf("%v", param): a string as it is, an int in decimal
Sprintf(param) == IF param[1] = "int" THEN ToString(param[2]) ELSE param[2]

\* utils.GenerateCacheKey: prefix, then ":" and fmt.Sprintf("%v", param) for every
\* param; the MD5 of the text stands for the text (taken as injective)
RECURSIVE JoinParams(_)
JoinParams(params) ==
    IF params = <<>> THEN "" ELSE ":" \o Sprintf(Head(params)) \o JoinParams(Tail(params))

GenerateCacheKey(prefix, params) == prefix \o JoinParams(params)

Range(s) == {s[i] : i \in 1..Len(s)}
CountIn(s, x) == Cardinality({i \in 1..Len(s) : s[i] = x})

GenreKey(g) == "genre_" \o ToString(g)
YearKey(y) == "year_" \o ToString(y)

\* WatchlistService.analyzeUserPreferences: the preferences map
analyzeUserPreferences(items) ==
    LET totalItems == Len(items)
        genres == UNION {Range(items[i].Movie.GenreIDs) : i \in 1..totalItems}
        genreCount(g) == SeqSum([i \in 1..totalItems |-> CountIn(items[i].Movie.GenreIDs, g)])
        rated == {i \in 1..totalItems : RLess(RZero, items[i].Rating)}
        ratingSum == RSum([i \in 1..totalItems |->
                             IF i \in rated THEN items[i].Rating ELSE RZero])
        ratingCount == Cardinality(rated)
        years == {ParseYear(items[i].Movie.ReleaseDate) : i \in 1..totalItems} \ {0}
        yearCount(y) == Cardinality({i \in 1..totalItems :
                                        ParseYear(items[i].Movie.ReleaseDate) = y})
        genrePrefs == [k \in {GenreKey(g) : g \in genres} |->
                          LET g == CHOOSE x \in genres : GenreKey(x) = k
                          IN  Rat(genreCount(g), totalItems)]
        avgPrefs == IF ratingCount > 0
                    THEN [k \in {"avg_rating"} |-> RMul(ratingSum, <<1, ratingCount>>)]
                    ELSE [k \in {} |-> RZero]
        yearPrefs == [k \in {YearKey(y) : y \in years} |->
                          LET y == CHOOSE x \in years : YearKey(x) = k
                          IN  Rat(yearCount(y), totalItems)]
    IN  genrePrefs @@ avgPrefs @@ yearPrefs

\* a bonus without the cap
PopularityBonusUncapped(popularity) == RMul(popularity, <<1, 100>>)

\* math.Min(movie.Popularity/100.0, 0.1)
PopularityBonus(popularity) == RMin(RMul(popularity, <<1, 100>>), <<1, 10>>)

\* the score of one candidate in scoreRecommendations
ScoreCandidate(movie, preferences) ==
    LET n == Len(movie.GenreIDs)
        genreSum == RSum([i \in 1..n |->
                            IF GenreKey(movie.GenreIDs[i]) \in DOMAIN preferences
                            THEN preferences[GenreKey(movie.GenreIDs[i])] ELSE RZero])
        genreMatch == IF n > 0 THEN RMul(genreSum, <<1, n>>) ELSE genreSum
        ratingMatch == IF "avg_rating" \in DOMAIN preferences /\ RLess(RZero, movie.VoteAverage)
                       THEN RSub(ROne, RMul(RAbs(RSub(movie.VoteAverage,
                                                     preferences["avg_rating"])), <<1, 10>>))
                       ELSE RZero
        year == ParseYear(movie.ReleaseDate)
        yearMatch == IF year > 0 /\ YearKey(year) \in DOMAIN preferences
                     THEN preferences[YearKey(year)] ELSE RZero
        base == RAdd(RAdd(RMul(genreMatch, <<1, 2>>), RMul(ratingMatch, <<3, 10>>)),
                     RMul(yearMatch, <<1, 5>>))
        score == IF RLess(RZero, movie.Popularity)
                 THEN RAdd(base, PopularityBonus(movie.Popularity))
                 ELSE base
        reason == IF RLess(<<1, 2>>, genreMatch) THEN "Similar genres to your favorites"
                  ELSE IF RLess(<<7, 10>>, ratingMatch) THEN "Matches your rating preferences"
                  ELSE IF RLess(<<3, 10>>, yearMatch) THEN "From your preferred time period"
                  ELSE "Based on your watchlist preferences"
    IN  [Movie |-> movie, Score |-> score, Reason |-> reason,
         GenreMatch |-> genreMatch, RatingMatch |-> ratingMatch]

\* a sort that leaves any order
AnyOrders(recs) == Permutations(1..Len(recs))

\* the orders sort.Slice may leave: highest score first, exact ties in any order
\* (sort.Slice is not stable)
SortedOrders(recs) ==
    {p \in Permutations(1..Len(recs)) :
        \A i, j \in 1..Len(recs) : i < j => ~RLess(recs[p[i]].Score, recs[p[j]].Score)}

\* if len(recommendations) > limit { recommendations = recommendations[:limit] }
TopRecommendations(recs, limit) ==
    IF Len(recs) > limit THEN SubSeq(recs, 1, limit) ELSE recs

\* WatchlistService.scoreRecommendations, for the order p the sort produced
scoreRecommendations(candidates, preferences, limit, p) ==
    LET recs == [i \in 1..Len(candidates) |-> ScoreCandidate(candidates[i], preferences)]
    IN  TopRecommendations([i \in 1..Len(recs) |-> recs[p[i]]], limit)

ServiceRecord(op, user, limit, list, e, hit, items, movieOK, tvOK) ==
    [op |-> op, user |-> user, limit |-> limit, list |-> list, err |-> e, hit |-> hit,
     items |-> items, movieOK |-> movieOK, tvOK |-> tvOK]

Fail(op, user, e) ==
    /\ lastReco' = ServiceRecord(op, user, 0, <<>>, e, FALSE, 0, TRUE, TRUE)
    /\ UNCHANGED <<watchlists, data, now, lastOp>>

Done(op, user) == lastReco' = ServiceRecord(op, user, 0, <<>>, Nil, FALSE, 0, TRUE, TRUE)

\* WatchlistService.CreateWatchlist
CreateWatchlist(userID) ==
    IF userID \in DOMAIN watchlists
    THEN Fail("CreateWatchlist", userID, "user already has a watchlist")
    ELSE /\ watchlists' = [u \in (DOMAIN watchlists) \cup {userID} |->
                              IF u = userID
                              THEN [ID |-> Cardinality(DOMAIN watchlists) + 1, Items |-> <<>>]
                              ELSE watchlists[u]]
         /\ Done("CreateWatchlist", userID)
         /\ UNCHANGED <<data, now, lastOp>>

\* WatchlistService.AddToWatchlist; detailsOK: GetMovieDetails returned the movie
AddToWatchlist(userID, movieID, rating, detailsOK) ==
    IF userID \notin DOMAIN watchlists
    THEN Fail("AddToWatchlist", userID, "watchlist not found")
    ELSE LET wl == watchlists[userID] IN
         IF \E i \in 1..Len(wl.Items) : wl.Items[i].MovieID = movieID
         THEN Fail("AddToWatchlist", userID, "movie already in watchlist")
         ELSE /\ Len(wl.Items) < MaxItems
              /\ watchlists' = [watchlists EXCEPT ![userID].Items =
                    Append(@, [ID |-> Len(wl.Items) + 1, WatchlistID |-> wl.ID,
                               MovieID |-> movieID, Rating |-> rating,
                               Movie |-> IF detailsOK THEN Catalog(movieID) ELSE ZeroMovie])]
              /\ Done("AddToWatchlist", userID)
              /\ UNCHANGED <<data, now, lastOp>>

FirstWithID(items, itemID) ==
    IF \E i \in 1..Len(items) : items[i].ID = itemID
    THEN CHOOSE i \in 1..Len(items) :
            /\ items[i].ID = itemID
            /\ \A j \in 1..(i - 1) : items[j].ID # itemID
    ELSE 0

\* WatchlistService.UpdateWatchlistItem
UpdateWatchlistItem(userID, itemID, rating) ==
    IF userID \notin DOMAIN watchlists
    THEN Fail("UpdateWatchlistItem", userID, "watchlist not found")
    ELSE LET i == FirstWithID(watchlists[userID].Items, itemID) IN
         IF i = 0
         THEN Fail("UpdateWatchlistItem", userID, "watchlist item not found")
         ELSE /\ watchlists' = [watchlists EXCEPT ![userID].Items[i].Rating = rating]
              /\ Done("UpdateWatchlistItem", userID)
              /\ UNCHANGED <<data, now, lastOp>>

\* WatchlistService.RemoveFromWatchlist
RemoveFromWatchlist(userID, itemID) ==
    IF userID \notin DOMAIN watchlists
    THEN Fail("RemoveFromWatchlist", userID, "watchlist not found")
    ELSE LET items == watchlists[userID].Items
             i == FirstWithID(items, itemID) IN
         IF i = 0
         THEN Fail("RemoveFromWatchlist", userID, "watchlist item not found")
         ELSE /\ watchlists' = [watchlists EXCEPT ![userID].Items =
                    SubSeq(items, 1, i - 1) \o SubSeq(items, i + 1, Len(items))]
              /\ Done("RemoveFromWatchlist", userID)
              /\ UNCHANGED <<data, now, lastOp>>

\* ---- AddToWatchlist in request handlers that run at the same time: the service
\* has no lock, and GetMovieDetails (an HTTP call) lies between the duplicate
\* check and the append
NoWatchItem == [ID |-> 0, WatchlistID |-> 0, MovieID |-> 0, Rating |-> RZero, Movie |-> ZeroMovie]
AddCall(where, user, item, e) == [pc |-> where, user |-> user, item |-> item, err |-> e]
IdleAdd == AddCall("idle", Nil, NoWatchItem, Nil)

\* AddToWatchlist, lines 73-93: the lookup, the duplicate check and the new item
\* with ID len(watchlist.Items) + 1
AddCheck(h, userID, movieID, rating) ==
    /\ handlers[h].pc = "idle"
    /\ handlers' = [handlers EXCEPT ![h] =
          IF userID \notin DOMAIN watchlists
          THEN AddCall("idle", userID, NoWatchItem, "watchlist not found")
          ELSE LET wl == watchlists[userID] IN
               IF \E i \in 1..Len(wl.Items) : wl.Items[i].MovieID = movieID
               THEN AddCall("idle", userID, NoWatchItem, "movie already in watchlist")
               ELSE AddCall("append", userID,
                            [ID |-> Len(wl.Items) + 1, WatchlistID |-> wl.ID,
                             MovieID |-> movieID, Rating |-> rating, Movie |-> ZeroMovie],
                            Nil)]
    /\ UNCHANGED <<watchlists, lastReco, cacheVars>>

\* AddToWatchlist, lines 95-104: GetMovieDetails has returned, and the item is
\* appended to the items the watchlist holds by now
AddAppend(h, detailsOK) ==
    /\ handlers[h].pc = "append"
    /\ LET me == handlers[h]
           item == [me.item EXCEPT !.Movie = IF detailsOK THEN Catalog(me.item.MovieID)
                                             ELSE ZeroMovie]
       IN  /\ Len(watchlists[me.user].Items) < MaxItems
           /\ watchlists' = [watchlists EXCEPT ![me.user].Items = Append(@, item)]
           /\ handlers' = [handlers EXCEPT ![h] = AddCall("idle", me.user, item, Nil)]
    /\ UNCHANGED <<lastReco, cacheVars>>

\* a service that scores for an empty watchlist as well
NeverEmpty(items) == FALSE

\* len(watchlist.Items) == 0
IsEmptyWatchlist(items) == Len(items) = 0

\* WatchlistService.GetRecommendations; movieOK, tvOK: the two provider fetches of
\* GetTrendingMedia succeed
GetRecommendations(userID, limit, movieOK, tvOK) ==
    LET cacheKey == GenerateCacheKey("recommendations", <<StringParam(userID), IntParam(limit)>>)
        cached == CacheGet(data, cacheKey, now)
    IN
    /\ UNCHANGED <<watchlists, now, lastOp>>
    /\ IF cached.found
       THEN /\ data' = cached.data
            /\ lastReco' = ServiceRecord("GetRecommendations", userID, limit, cached.value,
                                         Nil, TRUE, 0, TRUE, TRUE)
       ELSE IF userID \notin DOMAIN watchlists
       THEN /\ data' = cached.data
            /\ lastReco' = ServiceRecord("GetRecommendations", userID, limit, <<>>,
                                         "watchlist not found", FALSE, 0, TRUE, TRUE)
       ELSE IF IsEmptyWatchlist(watchlists[userID].Items)
       THEN /\ data' = cached.data
            /\ lastReco' = ServiceRecord("GetRecommendations", userID, limit, <<>>,
                                         Nil, FALSE, 0, TRUE, TRUE)
       ELSE LET items == watchlists[userID].Items
                preferences == analyzeUserPreferences(items)
                trending == GetTrendingMedia(1, "all", movieOK, tvOK)
            IN  IF trending.err # Nil
                THEN /\ data' = cached.data
                     /\ lastReco' = ServiceRecord("GetRecommendations", userID, limit, <<>>,
                                                  "failed to get trending movies", FALSE,
                                                  Len(items), movieOK, tvOK)
                ELSE IF limit < 0
                THEN \* recommendations[:limit] with a negative limit panics
                     /\ data' = cached.data
                     /\ lastReco' = ServiceRecord("GetRecommendations", userID, limit, <<>>,
                                                  "panic: slice bounds out of range", FALSE,
                                                  Len(items), movieOK, tvOK)
                ELSE \E p \in SortedOrders([i \in 1..Len(trending.Results) |->
                                 ScoreCandidate(trending.Results[i], preferences)]) :
                        LET recommendations ==
                                scoreRecommendations(trending.Results, preferences, limit, p)
                        IN  /\ data' = CacheSet(cached.data, cacheKey, recommendations,
                                                RecommendationTTL, now)
                            /\ lastReco' = ServiceRecord("GetRecommendations", userID, limit,
                                                         recommendations, Nil, FALSE,
                                                         Len(items), movieOK, tvOK)

\* what the provider answers for /movie/{id} for the source movies of
\* GetSimilarMovies: 1 and 11 tagged 28 (11 is on the trending page), 21 tagged 28
\* and 35, 22 with ten tags of which 28 is one, 23 without tags
SourceMovie(m) ==
    CASE m = 1 -> Catalog(1)
      [] m = 11 -> TrendingMovies[1]
      [] m = 21 -> [Catalog(1) EXCEPT !.ID = 21, !.GenreIDs = <<28, 35>>]
      [] m = 22 -> [Catalog(1) EXCEPT !.ID = 22,
                                      !.GenreIDs = <<12, 14, 16, 18, 27, 28, 53, 80, 99, 878>>]
      [] OTHER -> [Catalog(1) EXCEPT !.ID = m, !.GenreIDs = <<>>]

\* a filter that lets every candidate with a common tag through
SimilarAtAll(similarity) == RLess(RZero, similarity)

\* similarity > 0.1
SimilarEnough(similarity) == RLess(<<1, 10>>, similarity)

\* the candidates GetSimilarMovies keeps, in pool order
RECURSIVE SimilarCandidates(_, _, _)
SimilarCandidates(sourceMovie, movieID, results) ==
    IF results = <<>> THEN <<>>
    ELSE LET movie == Head(results)
             rest == SimilarCandidates(sourceMovie, movieID, Tail(results))
         IN  IF /\ movie.ID # movieID
                /\ SimilarEnough(CalculateSimilarity(sourceMovie.GenreIDs, movie.GenreIDs))
             THEN <<movie>> \o rest
             ELSE rest

\* the orders sort.Slice may leave: highest similarity first, ties in any order
SimilarOrders(sourceMovie, movies) ==
    {p \in Permutations(1..Len(movies)) :
        \A i, j \in 1..Len(movies) : i < j =>
            ~RLess(CalculateSimilarity(sourceMovie.GenreIDs, movies[p[i]].GenreIDs),
                   CalculateSimilarity(sourceMovie.GenreIDs, movies[p[j]].GenreIDs))}

SimilarResult(list, e, hit, detailsOK, movieOK, tvOK) ==
    Computed([list |-> list, err |-> e, hit |-> hit, detailsOK |-> detailsOK,
              movieOK |-> movieOK, tvOK |-> tvOK])

\* WatchlistService.GetSimilarMovies for the movie and limit of input; detailsOK:
\* GetMovieDetails returns the source movie; movieOK, tvOK as in GetRecommendations
GetSimilarMovies(detailsOK, movieOK, tvOK) ==
    LET movieID == input.movieID
        limit == input.limit
        cacheKey == GenerateCacheKey("similar_movies", <<IntParam(movieID), IntParam(limit)>>)
        cached == CacheGet(data, cacheKey, now)
    IN
    /\ input.fn = "GetSimilarMovies"
    /\ UNCHANGED <<input, now, lastOp, watchlists, lastReco>>
    /\ IF cached.found
       THEN /\ data' = cached.data
            /\ output' = SimilarResult(cached.value, Nil, TRUE, TRUE, TRUE, TRUE)
       ELSE IF ~detailsOK
       THEN /\ data' = cached.data
            /\ output' = SimilarResult(<<>>, "failed to get source movie", FALSE,
                                       detailsOK, movieOK, tvOK)
       ELSE LET sourceMovie == SourceMovie(movieID)
                trending == GetTrendingMedia(1, "all", movieOK, tvOK)
                similarMovies == SimilarCandidates(sourceMovie, movieID, trending.Results)
            IN  \E p \in SimilarOrders(sourceMovie, similarMovies) :
                   LET sorted == [i \in 1..Len(similarMovies) |-> similarMovies[p[i]]]
                       top == IF Len(sorted) > limit THEN SubSeq(sorted, 1, limit)
                              ELSE sorted
                   IN  /\ data' = CacheSet(cached.data, cacheKey, top,
                                           RecommendationTTL, now)
                       /\ output' = SimilarResult(top, Nil, FALSE, detailsOK,
                                                  movieOK, tvOK)

(***************************************************************************)
(* controllers.WatchlistController.GetRecommendations                      *)
(***************************************************************************)
DefaultLimit == 10         \* limit = 10

\* the values of the limit query parameter in the model
LimitParams == {"abc", "0", "-1", "2", "10"}

\* strconv.Atoi on those values; the error is dropped and the result is then 0
Atoi(str) ==
    CASE str = "0" -> 0
      [] str = "-1" -> 0 - 1
      [] str = "2" -> 2
      [] str = "10" -> 10
      [] OTHER -> 0

\* a controller that hands the parsed limit on as it is
LimitAsGiven(limit) == limit

\* if limit <= 0 { limit = 10 }
LimitOrDefault(limit) == IF limit <= 0 THEN DefaultLimit ELSE limit

\* the handler: X-User-ID header, limit query parameter, then the service call
HandleGetRecommendations(userID, limitParam, movieOK, tvOK) ==
    /\ input' = [fn |-> "WatchlistController.GetRecommendations",
                 user |-> userID, limit |-> limitParam]
    /\ UNCHANGED output
    /\ IF userID = ""
       THEN Fail("HandleGetRecommendations", userID, "User ID is required")
       ELSE GetRecommendations(userID, LimitOrDefault(Atoi(limitParam)), movieOK, tvOK)

\* the clock of the service moves on by the recommendation TTL, or a minute more
AdvanceRecoClock(d) ==
    /\ now + d <= MaxRecoTime
    /\ now' = now + d
    /\ UNCHANGED <<data, lastOp, watchlists, lastReco>>

(***************************************************************************)
(* middleware.RateLimitMiddleware, applied to every route with 100         *)
(* requests per minute; the clock of this part counts half minutes         *)
(***************************************************************************)
RequestsPerMinute == 2     \* RateLimitMiddleware(100), scaled
Minute == 2                \* time.Minute
MaxClock == 4              \* the clock stops advancing here
StatusOK == 200
StatusTooManyRequests == 429

\* the connections requests arrive on: two of host "a", one of host "b"
IPs == {"a", "b"}
Connections == {[ip |-> "a", port |-> 1], [ip |-> "a", port |-> 2], [ip |-> "b", port |-> 1]}

\* http.Request.RemoteAddr: "IP:port" of the connection
RemoteAddr(c) == c.ip \o ":" \o ToString(c.port)

\* the times of a list that are less than a minute before t
Recent(times, t) == SelectSeq(times, LAMBDA x : t - x < Minute)

\* one request through the middleware: the old times of the address are dropped,
\* a full list answers 429, otherwise the time is added and next is called
RateLimitMiddleware(c) ==
    LET clientIP == RemoteAddr(c)
        exists == clientIP \in DOMAIN clients
        cleaned == IF exists THEN [clients EXCEPT ![clientIP] = Recent(@, now)]
                   ELSE clients
        still == [ip \in IPs |-> Recent(served.passed[ip], now)]
    IN  IF exists /\ Len(cleaned[clientIP]) >= RequestsPerMinute
        THEN /\ clients' = cleaned
             /\ served' = [passed |-> still, addr |-> clientIP,
                           status |-> StatusTooManyRequests]
             /\ UNCHANGED now
        ELSE /\ clients' = [a \in (DOMAIN cleaned) \cup {clientIP} |->
                                IF a = clientIP
                                THEN Append(IF exists THEN cleaned[a] ELSE <<>>, now)
                                ELSE cleaned[a]]
             /\ served' = [passed |-> [still EXCEPT ![c.ip] = Append(@, now)],
                           addr |-> clientIP, status |-> StatusOK]
             /\ UNCHANGED now

\* half a minute passes
MiddlewareClock ==
    /\ now < MaxClock
    /\ now' = now + 1
    /\ UNCHANGED <<clients, served>>

(***************************************************************************)
(* Specifications                                                          *)
(***************************************************************************)
NoWatchlists == [u \in {} |-> <<>>]
NoReco ==
    [op |-> Nil, user |-> Nil, limit |-> 0, list |-> <<>>, err |-> Nil, hit |-> FALSE,
     items |-> 0, movieOK |-> TRUE, tvOK |-> TRUE]

InitCache ==
    /\ data = EmptyCache
    /\ now = 0
    /\ lastOp = [op |-> "New", key |-> Nil, value |-> Nil, ttl |-> 0, found |-> FALSE,
                 pre |-> NoItem, at |-> 0]

IdleRetry ==
    /\ pc = "done"
    /\ attempt = 0
    /\ backoff = InitialBackoff
    /\ cancelled = FALSE
    /\ reqValid = TRUE
    /\ sent = 0
    /\ taken = 0
    /\ permitHeld = FALSE
    /\ outcomes = <<>>
    /\ slept = <<>>
    /\ resp = NoResp
    /\ err = Nil

IdleReco ==
    /\ watchlists = NoWatchlists
    /\ lastReco = NoReco


IdlePure ==
    /\ input = NoInput
    /\ output = NoOutput

NoHandlers == [h \in {} |-> Nil]
NoClients == [a \in {} |-> <<>>]
NoneServed == [passed |-> [ip \in IPs |-> <<>>], addr |-> Nil, status |-> 0]
IdleMiddleware ==
    /\ clients = NoClients
    /\ served = NoneServed
IdleHandlers ==
    /\ handlers = NoHandlers
    /\ IdleMiddleware

\* ---- the cache alone
InitSpecCache == InitCache /\ IdleHandlers /\ InitLimiter /\ IdleRetry /\ IdleReco /\ IdlePure

CacheFrame == UNCHANGED <<limiterVars, retryVars, recoVars, pureVars, handlerVars>>

NextCache ==
    \/ (\E k \in Keys, v \in Values, ttl \in TTLs : Set(k, v, ttl)) /\ CacheFrame
    \/ (\E k \in Keys : Get(k)) /\ CacheFrame
    \/ (\E k \in Keys : Delete(k)) /\ CacheFrame
    \/ Clear /\ CacheFrame
    \/ Cleanup /\ CacheFrame
    \/ AdvanceClock /\ CacheFrame

SpecCache == InitSpecCache /\ [][NextCache]_vars

\* ---- the limiter alone
InitSpecLimiter == InitCache /\ IdleHandlers /\ InitLimiter /\ IdleRetry /\ IdleReco /\ IdlePure

LimiterFrame == UNCHANGED <<cacheVars, retryVars, recoVars, pureVars, handlerVars>>

NextLimiter ==
    \/ AdvanceLimiter /\ LimiterFrame
    \/ Acquire /\ LimiterFrame

SpecLimiter == InitSpecLimiter /\ [][NextLimiter]_vars

\* ---- one RequestWithRetry call against the limiter of its client
InitSpecRetry ==
    /\ InitCache
    /\ IdleHandlers
    /\ InitRetry
    /\ IdleReco
    /\ IdlePure
    /\ requests \in 0..Capacity(RequestsPerSecond)
    /\ ticks = 0
    /\ granted = 0
    /\ phase = 0
    /\ grantLog = [i \in 1..SubSteps |-> 0]
    /\ sinceTick = 0

RetryFrame ==
    UNCHANGED <<cacheVars, recoVars, pureVars, handlerVars, ticks, granted, phase, grantLog,
                sinceTick>>

NextRetry ==
    \/ SelectPermit /\ RetryFrame
    \/ SelectDone /\ RetryFrame
    \/ SelectPark /\ RetryFrame
    \/ DoStart /\ RetryFrame
    \/ (\E o \in Outcomes : DoReturn(o)) /\ RetryFrame
    \/ Wake /\ RetryFrame
    \/ Cancel /\ RetryFrame
    \/ TickRetry /\ RetryFrame

SpecRetry == InitSpecRetry /\ [][NextRetry]_vars

\* the ticker keeps firing, client.Do returns (http.Client.Timeout), time.Sleep
\* returns and a runnable goroutine is scheduled; nothing obliges the caller to cancel
FairSpecRetry ==
    /\ SpecRetry
    /\ WF_vars(TickRetry /\ RetryFrame)
    /\ WF_vars(CallStep /\ RetryFrame)

\* ---- the watchlist service with its cache and the trending provider
InitSpecReco == InitCache /\ IdleHandlers /\ InitLimiter /\ IdleRetry /\ IdleReco /\ IdlePure

RecoFrame == UNCHANGED <<limiterVars, retryVars, pureVars, handlerVars>>

NextReco ==
    \/ (\E u \in Users : CreateWatchlist(u)) /\ RecoFrame
    \/ (\E u \in Users, m \in MovieIDs, r \in Ratings, ok \in BOOLEAN :
           AddToWatchlist(u, m, r, ok)) /\ RecoFrame
    \/ (\E u \in Users, id \in 1..MaxItems, r \in Ratings :
           UpdateWatchlistItem(u, id, r)) /\ RecoFrame
    \/ (\E u \in Users, id \in 1..MaxItems : RemoveFromWatchlist(u, id)) /\ RecoFrame
    \/ (\E u \in Users, l \in Limits, movieOK \in BOOLEAN, tvOK \in BOOLEAN :
           GetRecommendations(u, l, movieOK, tvOK)) /\ RecoFrame
    \/ (\E d \in {RecommendationTTL, RecommendationTTL + 1} :
           AdvanceRecoClock(d)) /\ RecoFrame

SpecReco == InitSpecReco /\ [][NextReco]_vars

\* ---- GenerateCacheKey on two calls
MaxParams == 2             \* parameters per call
Prefixes == {"omdb_title", "omdb_search"}
KeyParams ==
    {StringParam("a"), StringParam("b"), StringParam("a:b"), StringParam("b:a"), IntParam(1)}
ParamSeqs == UNION {[1..n -> KeyParams] : n \in 0..MaxParams}
KeyCalls == [prefix : Prefixes, params : ParamSeqs]

PureFrame == UNCHANGED <<cacheVars, limiterVars, retryVars, recoVars, handlerVars>>

InitSpecKey ==
    /\ InitCache /\ IdleHandlers /\ InitLimiter /\ IdleRetry /\ IdleReco
    /\ input \in [fn : {"GenerateCacheKey"}, a : KeyCalls, b : KeyCalls]
    /\ output = NoOutput

\* both calls are made
ComputeKeys ==
    /\ input.fn = "GenerateCacheKey"
    /\ ~output.done
    /\ output' = Computed(<<GenerateCacheKey(input.a.prefix, input.a.params),
                            GenerateCacheKey(input.b.prefix, input.b.params)>>)
    /\ UNCHANGED input

NextKey ==
    \/ ComputeKeys /\ PureFrame

SpecKey == InitSpecKey /\ [][NextKey]_vars

\* ---- the recommendation endpoint over watchlists that were built before
RatedItem(k) ==
    [ID |-> k, WatchlistID |-> 1, MovieID |-> k, Rating |-> <<8, 1>>, Movie |-> Catalog(k)]

BuiltWatchlists ==
    {[u \in {"u1"} |-> [ID |-> 1, Items |-> items]] :
        items \in {<<>>, <<RatedItem(1)>>, <<RatedItem(1), RatedItem(2)>>}}

InitSpecEndpoint ==
    /\ InitCache /\ IdleHandlers /\ InitLimiter /\ IdleRetry /\ IdlePure
    /\ watchlists \in BuiltWatchlists
    /\ lastReco = NoReco

EndpointFrame == UNCHANGED <<limiterVars, retryVars, handlerVars>>

NextEndpoint ==
    \/ (\E u \in Users \cup {""}, l \in LimitParams, reachable \in BOOLEAN :
           HandleGetRecommendations(u, l, reachable, reachable)) /\ EndpointFrame
    \/ (\E u \in Users, id \in 1..MaxItems : RemoveFromWatchlist(u, id))
          /\ UNCHANGED pureVars /\ EndpointFrame
    \/ (\E d \in {RecommendationTTL, RecommendationTTL + 1} : AdvanceRecoClock(d))
          /\ UNCHANGED pureVars /\ EndpointFrame

SpecEndpoint == InitSpecEndpoint /\ [][NextEndpoint]_vars

\* ---- analyzeUserPreferences and scoreRecommendations on a watchlist and a pool
MaxScoreItems == 2         \* items of the watchlist
MaxPool == 3               \* candidates of the pool
ScoreLimits == {1, 2, 3}

\* the movies the items of the watchlist carry: two tagged 28, one whose tag list
\* names 28 twice
ItemMovie(m) ==
    IF m \in {1, 2} THEN Catalog(m)
    ELSE [ID |-> m, GenreIDs |-> <<28, 28>>, VoteAverage |-> <<7, 1>>,
          Popularity |-> <<20, 1>>, ReleaseDate |-> "2020-05-01", MediaType |-> "movie"]

ItemRating(m) == IF m = 1 THEN <<8, 1>> ELSE IF m = 2 THEN <<9, 1>> ELSE RZero

\* the injective sequences over S of length lo..hi
InjectiveSeqs(S, lo, hi) ==
    UNION {{q \in [1..n -> S] : \A i, j \in 1..n : i # j => q[i] # q[j]} : n \in lo..hi}

\* the items AddToWatchlist leaves for the movies ms, added in that order
ItemsOf(ms) ==
    [i \in 1..Len(ms) |->
        [ID |-> i, WatchlistID |-> 1, MovieID |-> ms[i], Rating |-> ItemRating(ms[i]),
         Movie |-> ItemMovie(ms[i])]]

\* the candidates: the trending entries and a second entry that scores as the first
Candidates ==
    {TrendingMovies[1], TrendingMovies[2], TrendingTV[1],
     [TrendingMovies[1] EXCEPT !.ID = 14]}

ScoreInputs ==
    [fn : {"scoreRecommendations"},
     items : {ItemsOf(ms) : ms \in InjectiveSeqs({1, 2, 3}, 1, MaxScoreItems)},
     candidates : InjectiveSeqs(Candidates, 0, MaxPool),
     limit : ScoreLimits]

InitSpecScore ==
    /\ InitCache /\ IdleHandlers /\ InitLimiter /\ IdleRetry /\ IdleReco
    /\ input \in ScoreInputs
    /\ output = NoOutput

\* preferences := s.analyzeUserPreferences(watchlist);
\* recommendations := s.scoreRecommendations(candidates, preferences, limit)
Score ==
    /\ input.fn = "scoreRecommendations"
    /\ ~output.done
    /\ LET preferences == analyzeUserPreferences(input.items)
           recs == [i \in 1..Len(input.candidates) |->
                       ScoreCandidate(input.candidates[i], preferences)]
       IN  \E p \in SortedOrders(recs) :
              output' = Computed([preferences |-> preferences,
                                  list |-> scoreRecommendations(input.candidates,
                                                                preferences, input.limit, p)])
    /\ UNCHANGED input

NextScore ==
    \/ Score /\ PureFrame

SpecScore == InitSpecScore /\ [][NextScore]_vars

\* ---- CalculateSimilarity on two tag lists, in both argument orders
MaxTags == 3               \* tags per movie
Tags == 1..4
TagLists == UNION {[1..n -> Tags] : n \in 0..MaxTags}

InitSpecSimilarity ==
    /\ InitCache /\ IdleHandlers /\ InitLimiter /\ IdleRetry /\ IdleReco
    /\ input \in [fn : {"CalculateSimilarity"}, a : TagLists, b : TagLists]
    /\ output = NoOutput

Similarity ==
    /\ input.fn = "CalculateSimilarity"
    /\ ~output.done
    /\ output' = Computed(<<CalculateSimilarity(input.a, input.b),
                            CalculateSimilarity(input.b, input.a)>>)
    /\ UNCHANGED input

NextSimilarity ==
    \/ Similarity /\ PureFrame

SpecSimilarity == InitSpecSimilarity /\ [][NextSimilarity]_vars

\* ---- GetSimilarMovies, called again and again for one movie and limit
SourceIDs == {1, 11, 21, 22, 23}
SimilarLimits == {1, 2}

InitSpecSimilar ==
    /\ InitCache /\ IdleHandlers /\ InitLimiter /\ IdleRetry /\ IdleReco
    /\ input \in [fn : {"GetSimilarMovies"}, movieID : SourceIDs, limit : SimilarLimits]
    /\ output = NoOutput

SimilarFrame == UNCHANGED <<limiterVars, retryVars, handlerVars>>

NextSimilar ==
    \/ (\E detailsOK \in BOOLEAN, movieOK \in BOOLEAN, tvOK \in BOOLEAN :
           GetSimilarMovies(detailsOK, movieOK, tvOK)) /\ SimilarFrame
    \/ (\E d \in {RecommendationTTL, RecommendationTTL + 1} : AdvanceRecoClock(d))
          /\ UNCHANGED pureVars /\ SimilarFrame

SpecSimilar == InitSpecSimilar /\ [][NextSimilar]_vars

\* ---- GetTrendingMedia, called again and again for one page and media type
MaxPage == 3               \* pages asked for
Pages == 1..MaxPage
MediaTypes == {"movie", "tv", "all"}

InitSpecTrending ==
    /\ InitCache /\ IdleHandlers /\ InitLimiter /\ IdleRetry /\ IdleReco
    /\ input \in [fn : {"GetTrendingMedia"}, page : Pages, mediaType : MediaTypes]
    /\ output = NoOutput

\* one call of GetTrendingMedia(ctx, "week", input.page, input.mediaType): the
\* record keeps the result, the requests handed to client.Get, the time of the call
\* and the time of the latest earlier call all of whose fetches succeeded
FetchTrending(movieOK, tvOK) ==
    /\ input.fn = "GetTrendingMedia"
    /\ output' = Computed(
          [result |-> GetTrendingMedia(input.page, input.mediaType, movieOK, tvOK),
           requests |-> TrendingRequests(input.page, input.mediaType),
           movieOK |-> movieOK,
           tvOK |-> tvOK,
           at |-> now,
           fetchedAt |-> IF ~output.done THEN -1
                         ELSE IF output.value.movieOK /\ output.value.tvOK
                              THEN output.value.at
                              ELSE output.value.fetchedAt])
    /\ UNCHANGED <<input, cacheVars, recoVars>>

TrendingFrame == UNCHANGED <<limiterVars, retryVars, handlerVars>>

NextTrending ==
    \/ (\E movieOK \in BOOLEAN, tvOK \in BOOLEAN : FetchTrending(movieOK, tvOK))
          /\ TrendingFrame
    \/ (\E d \in {RecommendationTTL, RecommendationTTL + 1} : AdvanceRecoClock(d))
          /\ UNCHANGED pureVars /\ TrendingFrame

SpecTrending == InitSpecTrending /\ [][NextTrending]_vars

\* ---- two request handlers on one Cache
RaceKeys == {"k1"}
RaceValues == {"v1"}

InitSpecRace ==
    /\ InitCache /\ InitLimiter /\ IdleRetry /\ IdleReco /\ IdlePure /\ IdleMiddleware
    /\ handlers = [h \in Handlers |-> IdleHandler]

RaceFrame == UNCHANGED <<limiterVars, retryVars, recoVars, pureVars, clients, served>>

NextRace ==
    \/ (\E h \in Handlers, k \in RaceKeys, v \in RaceValues, ttl \in TTLs :
           RaceSet(h, k, v, ttl)) /\ RaceFrame
    \/ (\E h \in Handlers, k \in RaceKeys : GetRead(h, k)) /\ RaceFrame
    \/ (\E h \in Handlers : GetCheck(h)) /\ RaceFrame
    \/ (\E h \in Handlers : GetDelete(h)) /\ RaceFrame
    \/ (\E h \in Handlers, k \in RaceKeys : RaceDelete(h, k)) /\ RaceFrame
    \/ (\E h \in Handlers : RaceClear(h)) /\ RaceFrame
    \/ (\E h \in Handlers : CleanupStart(h)) /\ RaceFrame
    \/ (\E h \in Handlers : CleanupRange(h)) /\ RaceFrame
    \/ (\E h \in Handlers : CleanupDelete(h)) /\ RaceFrame
    \/ RaceClock /\ RaceFrame

SpecRace == InitSpecRace /\ [][NextRace]_vars

\* ---- two request handlers on the watchlist of one user
InitSpecWatchRace ==
    /\ InitCache /\ InitLimiter /\ IdleRetry /\ IdlePure /\ IdleMiddleware
    /\ watchlists = [u \in Users |-> [ID |-> 1, Items |-> <<>>]]
    /\ lastReco = NoReco
    /\ handlers = [h \in Handlers |-> IdleAdd]

WatchRaceRatings == {<<8, 1>>}

WatchRaceFrame == UNCHANGED <<limiterVars, retryVars, pureVars, clients, served>>

NextWatchRace ==
    \/ (\E h \in Handlers, u \in Users, m \in MovieIDs, r \in WatchRaceRatings :
           AddCheck(h, u, m, r)) /\ WatchRaceFrame
    \/ (\E h \in Handlers, ok \in BOOLEAN : AddAppend(h, ok)) /\ WatchRaceFrame
    \/ (\E u \in Users, id \in 1..MaxItems, r \in WatchRaceRatings :
           UpdateWatchlistItem(u, id, r)) /\ UNCHANGED handlers /\ WatchRaceFrame
    \/ (\E u \in Users, id \in 1..MaxItems : RemoveFromWatchlist(u, id))
          /\ UNCHANGED handlers /\ WatchRaceFrame

SpecWatchRace == InitSpecWatchRace /\ [][NextWatchRace]_vars

\* ---- the inbound rate limit
InitSpecMiddleware ==
    InitCache /\ IdleHandlers /\ InitLimiter /\ IdleRetry /\ IdleReco /\ IdlePure

MiddlewareFrame ==
    UNCHANGED <<data, lastOp, limiterVars, retryVars, recoVars, pureVars, handlers>>

NextMiddleware ==
    \/ (\E c \in Connections : RateLimitMiddleware(c)) /\ MiddlewareFrame
    \/ MiddlewareClock /\ MiddlewareFrame

SpecMiddleware == InitSpecMiddleware /\ [][NextMiddleware]_vars

(***************************************************************************)
(* Properties of the cache                                                 *)
(***************************************************************************)

\* C1: Cache.Get never returns a stale entry. A Get of an absent key returns
\* (nil, false) and changes nothing; a Get of a present key with now > expiresAt
\* removes exactly that entry and returns (nil, false); otherwise it returns
\* (value, true) and changes nothing. A Get right after a Set with ttl > 0 returns
\* the value just stored, and a Cleanup that follows a Get of an expired key leaves
\* no entry for that key.
C1_GetNeverStale ==
    [][ /\ lastOp'.op = "Get" =>
             LET k == lastOp'.key IN
             /\ k \notin DOMAIN data =>
                    /\ ~lastOp'.found
                    /\ lastOp'.value = Nil
                    /\ data' = data
             /\ (k \in DOMAIN data /\ now > data[k].ExpiresAt) =>
                    /\ ~lastOp'.found
                    /\ lastOp'.value = Nil
                    /\ DOMAIN data' = (DOMAIN data) \ {k}
                    /\ \A x \in DOMAIN data' : data'[x] = data[x]
             /\ (k \in DOMAIN data /\ now <= data[k].ExpiresAt) =>
                    /\ lastOp'.found
                    /\ lastOp'.value = data[k].Data
                    /\ data' = data
             /\ (lastOp.op = "Set" /\ lastOp.key = k /\ lastOp.ttl > 0) =>
                    /\ lastOp'.found
                    /\ lastOp'.value = lastOp.value
        /\ (lastOp'.op = "Cleanup" /\ lastOp.op = "Get" /\ ~lastOp.found) =>
             lastOp.key \notin DOMAIN data'
      ]_vars

\* C1 witness: a Get met an entry whose expiry had passed and reported a miss
C1_Witness ==
    /\ lastOp.op = "Get"
    /\ lastOp.pre # NoItem
    /\ lastOp.at > lastOp.pre.ExpiresAt
    /\ ~lastOp.found
    /\ lastOp.key \notin DOMAIN data

\* C22: a Set(k, v, ttl) leaves under k the entry (v, now + ttl) whatever was
\* there before, an expired entry or one with a later expiry, and leaves the
\* entries under all other keys as they were
C22_SetLastWriterWins ==
    [][lastOp'.op = "Set" =>
          LET k == lastOp'.key IN
          /\ DOMAIN data' = (DOMAIN data) \cup {k}
          /\ data'[k] = [Data |-> lastOp'.value, ExpiresAt |-> now + lastOp'.ttl]
          /\ \A x \in (DOMAIN data) \ {k} : data'[x] = data[x]
      ]_vars

\* C22 witness: a Set replaced an entry with another value and a later expiry
C22_Witness ==
    /\ lastOp.op = "Set"
    /\ lastOp.pre # NoItem
    /\ lastOp.pre.Data # lastOp.value
    /\ lastOp.pre.ExpiresAt > lastOp.at + lastOp.ttl
    /\ data[lastOp.key] = [Data |-> lastOp.value, ExpiresAt |-> lastOp.at + lastOp.ttl]

\* C23: a Cleanup removes exactly the entries with now > expiresAt and leaves the
\* others as they are, so that no expired entry remains after it
C23_CleanupRemovesExpired ==
    [][lastOp'.op = "Cleanup" =>
          /\ DOMAIN data' = {k \in DOMAIN data : now <= data[k].ExpiresAt}
          /\ \A k \in DOMAIN data' : data'[k] = data[k]
          /\ \A k \in DOMAIN data' : ~(now' > data'[k].ExpiresAt)
      ]_vars

\* C23 witness: a Cleanup removed an entry and left another, which expires at this
\* very instant
C23_Witness ==
    /\ lastOp.op = "Cleanup"
    /\ lastOp.found
    /\ \E k \in DOMAIN data : data[k].ExpiresAt = now
    /\ lastOp.at = now

(***************************************************************************)
(* Properties of the rate limiter                                          *)
(***************************************************************************)

\* C6 as stated: in every window of one refill interval at most R permits are
\* granted, also in a burst after an idle period
C6_WindowAtMostRate == WindowGrants <= RequestsPerSecond

\* C6 amended: between two consecutive refill ticks at most R permits are granted
\* (what the buffer holds), and a window of one refill interval, which contains one
\* tick, sees at most R + 1
C6_PerTickAtMostRate ==
    /\ sinceTick <= RequestsPerSecond
    /\ WindowGrants <= RequestsPerSecond + 1

\* C6 witness: the burst after an idle period: the full buffer was drained and the
\* permit of the next tick was granted inside the same window
C6_Witness ==
    /\ WindowGrants = RequestsPerSecond + 1
    /\ ticks > RequestsPerSecond

\* C7: permits granted so far are at most C + (refill ticks so far), and the
\* buffer never holds more than C permits (a tick on a full buffer adds nothing)
C7_RateBound ==
    /\ granted <= RequestsPerSecond + ticks
    /\ requests <= RequestsPerSecond
    /\ requests >= 0

\* C7 witness: more permits than the buffer holds were granted, and a tick found
\* the buffer full and was dropped
C7_Witness ==
    /\ granted > RequestsPerSecond
    /\ requests = RequestsPerSecond
    /\ ticks > granted + requests

(***************************************************************************)
(* Properties of RequestWithRetry                                          *)
(***************************************************************************)
Status(s) == [ok |-> TRUE, status |-> s]

All503 ==
    /\ outcomes # <<>>
    /\ \A i \in 1..Len(outcomes) : outcomes[i] = Status(503)

\* C2: the call sends at most 4 requests whatever the target answers, a returned
\* call sends nothing more, the call returns; against a target that always answers
\* 503 a call that is not cancelled returns after exactly 4 requests with the last
\* response and the terminal server error
C2_RetryTerminates ==
    /\ [](sent <= 4 /\ Len(outcomes) <= 4 /\ attempt <= 3)
    /\ []((All503 /\ pc = "done" /\ err # "ctx") =>
            /\ sent = 4
            /\ Len(outcomes) = 4
            /\ resp = Status(503)
            /\ err = "server_error")
    /\ [][pc = "done" => (pc' = "done" /\ sent' = sent)]_vars
    /\ <>(pc = "done")

\* C2 witness: four 503 answers, then the terminal server error
C2_Witness ==
    /\ pc = "done"
    /\ All503
    /\ sent = 4
    /\ err = "server_error"

\* C4 as stated: a call at the permit wait whose context is cancelled leaves the
\* wait by failing with the context's error, without a request and without a permit
C4_CancelledWaitFails ==
    [][(pc = "select" /\ cancelled /\ pc' # pc) =>
          /\ pc' = "done"
          /\ err' = "ctx"
          /\ sent' = sent
          /\ taken' = taken
      ]_vars

\* C5 as stated: once the context is cancelled during an attempt or a backoff
\* wait, the next thing the call does is fail with the context's error
C5_CancelEndsRetries ==
    [][(cancelled /\ pc \in {"inflight", "sleep"} /\ pc' # pc) =>
          /\ pc' = "done"
          /\ err' = "ctx"
      ]_vars

\* C8: every request is sent on a permit of its own: requests sent never exceed
\* permits taken, and a request is sent only while a permit received since the
\* previous request is held
C8_PermitPerAttempt ==
    /\ [](sent <= taken)
    /\ [][sent' # sent => (sent' = sent + 1 /\ permitHeld /\ ~permitHeld')]_vars

\* C8 witness: a retry was sent, on the second permit
C8_Witness ==
    /\ sent = 2
    /\ taken = 2
    /\ Len(slept) = 1

\* C9: a 2xx response is the last thing the call sees: it returns that response
\* with a nil error; two transport errors and then a 2xx give the 2xx after exactly
\* 3 requests
C9_SuccessEndsCall ==
    /\ \A i \in 1..Len(outcomes) :
          (outcomes[i].ok /\ outcomes[i].status \in 200..299) =>
             /\ i = Len(outcomes)
             /\ pc = "done"
             /\ resp = outcomes[i]
             /\ err = Nil
             /\ sent = i
    /\ outcomes = <<ErrOutcome, ErrOutcome, Status(200)>> =>
          /\ pc = "done"
          /\ sent = 3
          /\ resp = Status(200)
          /\ err = Nil

\* C9 witness: transport error, transport error, 200
C9_Witness ==
    /\ outcomes = <<ErrOutcome, ErrOutcome, Status(200)>>
    /\ pc = "done"
    /\ sent = 3

\* C10: a non-2xx status outside 429, 500, 502, 503, 504 ends the call at once, at
\* any attempt: the response is returned as it is with a nil error, no backoff wait
\* follows it and no further request is sent
C10_TerminalStatusNotRetried ==
    \A i \in 1..Len(outcomes) :
        (/\ outcomes[i].ok
         /\ outcomes[i].status \notin 200..299
         /\ outcomes[i].status \notin {429, 500, 502, 503, 504}) =>
            /\ i = Len(outcomes)
            /\ pc = "done"
            /\ resp = outcomes[i]
            /\ err = Nil
            /\ Len(slept) = i - 1
            /\ sent = i

\* C10 witness: a 404 on the last attempt, after three retried failures
C10_Witness ==
    /\ Len(outcomes) = 4
    /\ outcomes[4] = Status(404)
    /\ pc = "done"

\* C11: the wait before retry k is 2^(k-1) seconds after a transport error or a
\* 500/502/503/504 and 2^k seconds after a 429, whatever the earlier failures were;
\* there are at most 3 waits and none follows the 4th attempt
C11_BackoffSchedule ==
    /\ Len(slept) <= MaxRetries
    /\ Len(slept) <= Len(outcomes)
    /\ \A k \in 1..Len(slept) :
          /\ Disposition(outcomes[k], k - 1) \in {"retry", "retry_double"}
          /\ slept[k] = IF outcomes[k].ok /\ outcomes[k].status = 429
                        THEN 2 ^ k
                        ELSE 2 ^ (k - 1)
    /\ (pc = "done" /\ Len(outcomes) = MaxRetries + 1) => Len(slept) = MaxRetries
    /\ pc = "sleep" => Len(outcomes) <= MaxRetries

\* C11 witness: a transport error, a 429 and a 503 were waited out for 1, 4 and 4
\* seconds, and the 4th attempt ended the call
C11_Witness ==
    /\ pc = "done"
    /\ Len(outcomes) = 4
    /\ outcomes[1] = ErrOutcome
    /\ outcomes[2] = Status(429)
    /\ outcomes[3] = Status(503)
    /\ slept = <<1, 4, 4>>

(***************************************************************************)
(* Properties of the recommendation engine                                 *)
(***************************************************************************)

\* C3: a GetRecommendations call that had to fetch the trending pool (non-empty
\* watchlist, no cached result) and met a failing provider request, for one or for
\* both media types, returns an error and no list
C3_PoolFailureIsFatal ==
    (/\ lastReco.op = "GetRecommendations"
     /\ ~lastReco.hit
     /\ lastReco.items > 0
     /\ (~lastReco.movieOK \/ ~lastReco.tvOK)) =>
        /\ lastReco.err # Nil
        /\ lastReco.list = <<>>

\* the cache key of GetRecommendations(u, l)
RecoKey(u, l) == "recommendations:" \o u \o ":" \o ToString(l)

\* a step of GetRecommendations(u, l)
RecoStep(u, l) ==
    /\ lastReco'.op = "GetRecommendations"
    /\ lastReco'.user = u
    /\ lastReco'.limit = l
    /\ now' = now
    /\ watchlists' = watchlists

\* the lists a computation from the items and the fetched pool can return
ComputedLists(items, l, movieOK, tvOK) ==
    LET pool == GetTrendingMedia(1, "all", movieOK, tvOK).Results
        preferences == analyzeUserPreferences(items)
        recs == [i \in 1..Len(pool) |-> ScoreCandidate(pool[i], preferences)]
    IN  {scoreRecommendations(pool, preferences, l, p) : p \in SortedOrders(recs)}

\* C13: a list stored for (user, limit) is stored for 30 minutes; a call with the
\* same user and limit made no later than 30 minutes after the store returns the
\* stored list as it is, with a nil error, whatever the watchlist has become, and
\* stores nothing; a call made later recomputes from the current watchlist and
\* stores the new list for 30 minutes
C13_Memoized ==
    [][\A u \in Users, l \in Limits :
         RecoStep(u, l) =>
            LET key == RecoKey(u, l) IN
            IF key \in DOMAIN data /\ now <= data[key].ExpiresAt
            THEN /\ lastReco'.hit
                 /\ lastReco'.list = data[key].Data
                 /\ lastReco'.err = Nil
                 /\ data' = data
            ELSE /\ ~lastReco'.hit
                 /\ (u \in DOMAIN watchlists /\ watchlists[u].Items # <<>>) =>
                       /\ lastReco'.list \in ComputedLists(watchlists[u].Items, l,
                                               lastReco'.movieOK, lastReco'.tvOK)
                       /\ key \in DOMAIN data'
                       /\ data'[key] = [Data |-> lastReco'.list, ExpiresAt |-> now + 30]
      ]_vars

\* C13 witness: the list stored at minute 0 is returned at minute 30 although the
\* watchlist it was computed from has lost its items
C13_Witness ==
    /\ lastReco.op = "GetRecommendations"
    /\ lastReco.hit
    /\ lastReco.list # <<>>
    /\ now = 30
    /\ "u1" \in DOMAIN watchlists
    /\ watchlists["u1"].Items = <<>>

\* the limits the service is called with by the endpoint
EffectiveLimits == {LimitOrDefault(Atoi(l)) : l \in LimitParams}

\* C14 as stated: GetRecommendations for a user whose watchlist exists and has no
\* items returns an empty list with a nil error
C14_EmptyWatchlistEmptyList ==
    [][\A u \in Users, l \in EffectiveLimits :
         (RecoStep(u, l) /\ u \in DOMAIN watchlists /\ watchlists[u].Items = <<>>) =>
            /\ lastReco'.list = <<>>
            /\ lastReco'.err = Nil
      ]_vars

\* C14, amended: for a user whose watchlist exists and has no items, a call that
\* finds no unexpired stored list for (user, limit) returns an empty list with a
\* nil error and stores nothing, for every limit and whether or not the provider
\* is reachable; a call that finds one returns the stored list with a nil error
C14_EmptyWatchlistUncached ==
    [][\A u \in Users, l \in EffectiveLimits :
         (RecoStep(u, l) /\ u \in DOMAIN watchlists /\ watchlists[u].Items = <<>>) =>
            LET key == RecoKey(u, l) IN
            IF key \in DOMAIN data /\ now <= data[key].ExpiresAt
            THEN /\ lastReco'.hit
                 /\ lastReco'.list = data[key].Data
                 /\ lastReco'.err = Nil
            ELSE /\ ~lastReco'.hit
                 /\ lastReco'.list = <<>>
                 /\ lastReco'.err = Nil
                 /\ key \notin DOMAIN data'
      ]_vars

\* C14 witness: a call with limit 2 for the empty watchlist of u1 went past the
\* cache and returned the empty list with a nil error
C14_Witness ==
    /\ lastReco.op = "GetRecommendations"
    /\ lastReco.user = "u1"
    /\ lastReco.limit = 2
    /\ ~lastReco.hit
    /\ lastReco.items = 0
    /\ lastReco.err = Nil
    /\ lastReco.list = <<>>
    /\ watchlists["u1"].Items = <<>>

\* a step of the endpoint for user u with the limit parameter lp
HandlerStep(u, lp) ==
    /\ input' = [fn |-> "WatchlistController.GetRecommendations", user |-> u, limit |-> lp]
    /\ lastReco'.op = "GetRecommendations"
    /\ now' = now
    /\ watchlists' = watchlists

Scored == input.fn = "scoreRecommendations" /\ output.done

\* where movie m stands in the pool (the pool holds no movie twice)
PoolIndex(m) == CHOOSE i \in 1..Len(input.candidates) : input.candidates[i] = m

\* C15: for a pool of n candidates and a limit L > 0 the list has exactly
\* min(L, n) entries in non-increasing score order, they are candidates of the pool
\* with their scores, each taken once, and none of them scores lower than a
\* candidate that was left out
C15_TopByScore ==
    Scored =>
        LET list == output.value.list
            prefs == output.value.preferences
            n == Len(input.candidates)
            k == IF input.limit < n THEN input.limit ELSE n
        IN  /\ Len(list) = k
            /\ \A i, j \in 1..k : i < j => ~RLess(list[i].Score, list[j].Score)
            /\ \E p \in Permutations(1..n) :
                  /\ \A i \in 1..k :
                        list[i] = ScoreCandidate(input.candidates[p[i]], prefs)
                  /\ \A i \in 1..k, j \in (k + 1)..n :
                        ~RLess(list[i].Score,
                               ScoreCandidate(input.candidates[p[j]], prefs).Score)

\* C15 witness: limit 1 against the pool B, TV entry, A returned A alone
C15_Witness ==
    /\ Scored
    /\ input.limit = 1
    /\ input.candidates = <<TrendingMovies[2], TrendingTV[1], TrendingMovies[1]>>
    /\ Len(output.value.list) = 1
    /\ output.value.list[1].Movie.ID = 11

\* C17 as stated: two entries of the list with exactly the same score stand in the
\* order in which their movies stand in the pool
C17_TiesKeepPoolOrder ==
    Scored =>
        LET list == output.value.list IN
        \A i, j \in 1..Len(list) :
            (i < j /\ list[i].Score = list[j].Score) =>
                PoolIndex(list[i].Movie) < PoolIndex(list[j].Movie)

\* the weight the preferences give to key k, 0 when they have none
Weight(prefs, k) == IF k \in DOMAIN prefs THEN prefs[k] ELSE RZero

\* C18: the score of every entry is 0.5*categoryMatch + 0.3*ratingMatch +
\* 0.2*yearMatch + min(popularity/100, 0.1), categoryMatch being the mean weight of
\* the candidate's tags (0 without tags); for the watchlist of two items tagged 28
\* and rated 8 and 9, A (tags [28], 8.5, popularity 50) has categoryMatch 1, B
\* (tags [35], 8.5, popularity 90) has 0, both get the bonus 0.1 and A stands
\* before B
C18_ScoreFormula ==
    Scored =>
        LET list == output.value.list
            prefs == output.value.preferences
            tags(r) == r.Movie.GenreIDs
            categoryMatch(r) ==
                IF tags(r) = <<>> THEN RZero
                ELSE RMul(RSum([i \in 1..Len(tags(r)) |-> Weight(prefs, GenreKey(tags(r)[i]))]),
                          <<1, Len(tags(r))>>)
            yearMatch(r) ==
                IF ParseYear(r.Movie.ReleaseDate) > 0
                THEN Weight(prefs, YearKey(ParseYear(r.Movie.ReleaseDate)))
                ELSE RZero
            bonus(r) == RMin(RMul(r.Movie.Popularity, <<1, 100>>), <<1, 10>>)
            at(id) == CHOOSE i \in 1..Len(list) : list[i].Movie.ID = id
        IN  /\ \A i \in 1..Len(list) :
                  /\ list[i].GenreMatch = categoryMatch(list[i])
                  /\ list[i].Score =
                        RAdd(RAdd(RAdd(RMul(<<1, 2>>, categoryMatch(list[i])),
                                       RMul(<<3, 10>>, list[i].RatingMatch)),
                                  RMul(<<1, 5>>, yearMatch(list[i]))),
                             bonus(list[i]))
            /\ (/\ input.items = ItemsOf(<<1, 2>>)
                /\ {11, 12} \subseteq {list[i].Movie.ID : i \in 1..Len(list)}) =>
                    /\ list[at(11)].GenreMatch = ROne
                    /\ list[at(12)].GenreMatch = RZero
                    /\ bonus(list[at(11)]) = <<1, 10>>
                    /\ bonus(list[at(12)]) = <<1, 10>>
                    /\ at(11) < at(12)

\* C18 witness: the watchlist rated 8 and 9, the pool B, A and both returned
C18_Witness ==
    /\ Scored
    /\ input.items = ItemsOf(<<1, 2>>)
    /\ input.candidates = <<TrendingMovies[2], TrendingMovies[1]>>
    /\ Len(output.value.list) = 2
    /\ output.value.list[1].Movie.ID = 11
    /\ output.value.list[1].Score = <<1, 1>>
    /\ output.value.list[2].Score = <<2, 5>>

\* C19 as stated: every category weight is the share of the items that carry the
\* tag, every year weight the share of the items of that year, and both lie in
\* [0, 1]
C19_WeightsAreFrequencies ==
    Scored =>
        LET items == input.items
            prefs == output.value.preferences
            total == Len(items)
            carrying(g) == {i \in 1..total : g \in Range(items[i].Movie.GenreIDs)}
            from(y) == {i \in 1..total : ParseYear(items[i].Movie.ReleaseDate) = y}
            InUnit(w) == ~RLess(w, RZero) /\ ~RLess(ROne, w)
        IN  /\ \A g \in UNION {Range(items[i].Movie.GenreIDs) : i \in 1..total} :
                  /\ prefs[GenreKey(g)] = Rat(Cardinality(carrying(g)), total)
                  /\ InUnit(prefs[GenreKey(g)])
            /\ \A y \in {ParseYear(items[i].Movie.ReleaseDate) : i \in 1..total} \ {0} :
                  /\ prefs[YearKey(y)] = Rat(Cardinality(from(y)), total)
                  /\ InUnit(prefs[YearKey(y)])

(***************************************************************************)
(* Properties of the helper functions                                      *)
(***************************************************************************)

\* C12 as stated: two GenerateCacheKey calls give the same key exactly when they
\* have the same operation name and the same parameter sequence
C12_KeysSeparateCalls ==
    (input.fn = "GenerateCacheKey" /\ output.done) =>
        (output.value[1] = output.value[2] <=> input.a = input.b)

\* C20: CalculateSimilarity(a, b) is |A n B| / |A u B| for the tag sets A and B of
\* the two lists, and 0 when a list is empty; it lies in [0, 1], is the same in
\* both argument orders, is 1 for equal non-empty sets and 1/2 for {1,2,3} and
\* {2,3,4}
C20_Jaccard ==
    (input.fn = "CalculateSimilarity" /\ output.done) =>
        LET A == Range(input.a)
            B == Range(input.b)
            sim == output.value[1]
        IN  /\ sim = IF A = {} \/ B = {} THEN <<0, 1>>
                     ELSE Rat(Cardinality(A \cap B), Cardinality(A \cup B))
            /\ ~RLess(sim, <<0, 1>>)
            /\ ~RLess(<<1, 1>>, sim)
            /\ output.value[2] = sim
            /\ (A = {} \/ B = {}) => sim = <<0, 1>>
            /\ (A = B /\ A # {}) => sim = <<1, 1>>
            /\ (A = {1, 2, 3} /\ B = {2, 3, 4}) => sim = <<1, 2>>

\* C20 witness: the lists [1,2,3] and [2,3,4] gave 1/2 in both orders
C20_Witness ==
    /\ input = [fn |-> "CalculateSimilarity", a |-> <<1, 2, 3>>, b |-> <<2, 3, 4>>]
    /\ output = Computed(<<(<<1, 2>>), (<<1, 2>>)>>)

(***************************************************************************)
(* Properties of GetSimilarMovies                                          *)
(***************************************************************************)
\* |A n B| / |A u B| of the tags of two movies, 0 when one has none
TagJaccard(m1, m2) ==
    LET A == Range(m1.GenreIDs)
        B == Range(m2.GenreIDs)
    IN  IF A = {} \/ B = {} THEN <<0, 1>>
        ELSE Rat(Cardinality(A \cap B), Cardinality(A \cup B))

TrendingPool == Range(TrendingMovies) \cup Range(TrendingTV)

TrendingTTL == 60          \* "Trending Content: 1 hour", in minutes

\* C24: once a trending page has been fetched, every fetch of the same page and
\* media type within the following hour is served from the cache: the call hands
\* no request to the provider.
C24_TrendingServedFromCache ==
    (/\ input.fn = "GetTrendingMedia"
     /\ output.done
     /\ output.value.fetchedAt >= 0
     /\ output.value.at - output.value.fetchedAt <= TrendingTTL)
    => output.value.requests = <<>>

\* what the provider holds on page p for the media type asked for
ProviderItems(page, mediaType) ==
    (IF mediaType \in {"movie", "all"} THEN ProviderPage("movie", page) ELSE <<>>)
    \o (IF mediaType \in {"tv", "all"} THEN ProviderPage("tv", page) ELSE <<>>)

\* C27: for every page p >= 1 and media type, GetTrendingMedia(page = p) whose
\* fetches succeed returns the items of the provider's page p, so a non-empty
\* list whenever the provider returned items.
C27_PageIsProviderPage ==
    (/\ input.fn = "GetTrendingMedia"
     /\ output.done
     /\ output.value.movieOK
     /\ output.value.tvOK)
    => /\ output.value.result.Results = ProviderItems(input.page, input.mediaType)
       /\ (ProviderItems(input.page, input.mediaType) # <<>>
              => output.value.result.Results # <<>>)

(***************************************************************************)
(* Properties of the cache under concurrent handlers                       *)
(***************************************************************************)
\* C25: the Cache methods are atomic with respect to each other: the delete that
\* follows an expiry check (in Get, in Cleanup) never removes an entry that
\* another handler's Set wrote after the check, that is, an entry that has not
\* expired when it is removed.
C25_DeleteRemovesOnlyExpired ==
    \A h \in DOMAIN handlers :
        handlers[h].deleted =>
            \/ handlers[h].removed = NoItem
            \/ After(handlers[h].at, handlers[h].removed.ExpiresAt)

(***************************************************************************)
(* Properties of the watchlist store                                       *)
(***************************************************************************)
\* C28: after any sequence of AddToWatchlist, UpdateWatchlistItem and
\* RemoveFromWatchlist calls, no two items of one watchlist have the same ID.
C28_ItemIDsUnique ==
    \A u \in DOMAIN watchlists :
        LET items == watchlists[u].Items IN
        \A i, j \in 1..Len(items) : items[i].ID = items[j].ID => i = j

\* C29: after any interleaving of AddToWatchlist, UpdateWatchlistItem and
\* RemoveFromWatchlist calls, AddToWatchlist calls of two handlers at the same
\* time included, no two items of one watchlist have the same MovieID.
C29_NoMovieTwice ==
    \A u \in DOMAIN watchlists :
        LET items == watchlists[u].Items IN
        \A i, j \in 1..Len(items) : items[i].MovieID = items[j].MovieID => i = j

(***************************************************************************)
(* Frame of GetRecommendations on the cache                                *)
(***************************************************************************)
\* the step stored an entry under the key
Stored(key) ==
    /\ key \in DOMAIN data'
    /\ (key \in DOMAIN data => data'[key] # data[key])

\* C30: GetRecommendations stores an entry only when it returns a list computed
\* from an acquired pool (both provider fetches answered); a call that returns
\* an error, or the empty list for an empty watchlist, leaves the cache as it was.
C30_CacheWrittenOnlyOnSuccess ==
    [][\A u \in Users, l \in Limits :
         RecoStep(u, l) =>
            /\ Stored(RecoKey(u, l)) =>
                  /\ ~lastReco'.hit
                  /\ lastReco'.err = Nil
                  /\ lastReco'.movieOK /\ lastReco'.tvOK
                  /\ lastReco'.list \in ComputedLists(watchlists[u].Items, l, TRUE, TRUE)
            /\ (\/ lastReco'.err # Nil
                \/ (~lastReco'.hit /\ u \in DOMAIN watchlists
                                   /\ watchlists[u].Items = <<>>)) => data' = data
      ]_vars

(***************************************************************************)
(* Properties of the inbound rate limit                                    *)
(***************************************************************************)
\* C26: for every client address, at most RequestsPerMinute requests of the last
\* minute were passed on to the next handler, whatever the other clients sent.
C26_PerClientLimit ==
    \A ip \in IPs : Len(Recent(served.passed[ip], now)) <= RequestsPerMinute
====
